---- MODULE Spec2Model ----
(***************************************************************************)
(* A model of cisco_health_monitor.py: the CiscoHealthMonitor class        *)
(* (connect_to_device, execute_health_check, execute_all_health_checks,    *)
(* save_results, disconnect, analyze_thresholds) and the main() driver.    *)
(*                                                                         *)
(* Two specifications share the method steps:                              *)
(*   Spec     one run of main()                                            *)
(*   SpecApi  a client calling the public methods in any order             *)
(***************************************************************************)
EXTENDS Naturals, Sequences, FiniteSets

VARIABLES
    driver,        \* "main": the steps are driven by main(); "api": by a client
    config,        \* the YAML document _load_config returns
    pc,            \* the statement the program is at
    exc,           \* the exception that left the last method ("none" if none)
    connection,    \* self.connection: 0 is None, n > 0 is the n-th session created
    sessions,      \* the netmiko sessions created so far: [open, closes]
    results,       \* self.results: <<>> is the empty dict, <<r>> a RunResult
    all_results,   \* local of execute_all_health_checks: <<>> before line 142
    check_results, \* local of execute_health_check
    cur,           \* the check_name execute_health_check was called with
    frame,         \* who called execute_health_check: "all" or "single"
    hcRet,         \* what execute_health_check returned: <<>> is {}
    ci,            \* position of the for loop of line 149 in the keys
    ki,            \* position of the for loop of line 109 in the commands
    inflight,      \* send_command calls that have not returned
    sent,          \* every command handed to send_command, in order
    connectRet,    \* what connect_to_device returned: "none", "True", "False"
    connectFault,  \* what connect_to_device caught: "none", or the failure
    saveRet,       \* what save_results returned: "none", "None", "path"
    saveFault,     \* the persistence failure of the last save_results
    preSave,       \* self.results when save_results was entered
    files,         \* documents written by save_results, in order: [path, doc, time]
    now,           \* the clock, in ticks, when datetime.now() was last read
    saveDir,       \* the output_dir argument of save_results ("None" if omitted)
    analysis,      \* what analyze_thresholds returned: <<>> before, <<alerts>>
    disconnectCalls, \* calls of CiscoHealthMonitor.disconnect
    calls          \* number of public methods the client has called

vars == <<driver, config, pc, exc, connection, sessions, results, all_results,
          check_results, cur, frame, hcRet, ci, ki, inflight, sent, connectRet,
          connectFault, saveRet, saveFault, preSave, files, now, saveDir, analysis,
          disconnectCalls, calls>>

\* Groups used in UNCHANGED.
sessionVars == <<connection, sessions>>
sweepVars   == <<all_results, check_results, cur, frame, hcRet, ci, ki, inflight, sent>>
saveVars    == <<saveRet, saveFault, preSave, files, now, saveDir>>
connVars    == <<connectRet, connectFault>>

----------------------------------------------------------------------------
\* Bounds of the model.
MaxChecks == 2      \* entries under health_checks
MaxCmds   == 2      \* commands of one check
MaxCalls  == 3      \* public methods a client calls in SpecApi
MaxTime   == 2      \* the last tick of the clock
TicksPerSecond == 2 \* resolution of the clock

----------------------------------------------------------------------------
\* The configuration document (spec section 6; read at lines 59-64, 97, 109-117,
\* 143, 149, 164-166).

KeyNames == <<"cpu", "memory", "interfaces", "environment">>

\* One entry of a check's commands list.  A description may be absent
\* (cmd_config.get('description', '')), and so may parse.
NoDescription == "<absent>"

CommandSpec(name, i) ==
    [command     |-> <<name, i>>,
     description |-> IF i % 2 = 1 THEN "described" ELSE NoDescription,
     parse       |-> (i % 2 = 0)]

CommandList(name, n) == [i \in 1..n |-> CommandSpec(name, i)]

\* The value under one key of health_checks: None ("none"), or a mapping whose
\* enabled is true, false or absent.
HealthCheckDefs(name) ==
    {[name |-> name, def |-> "none", enabled |-> "absent", commands |-> <<>>]}
    \cup
    {[name |-> name, def |-> "map", enabled |-> e, commands |-> CommandList(name, n)] :
        e \in {"true", "false", "absent"}, n \in 0..MaxCmds}

RECURSIVE HealthChecks(_)
\* Every health_checks mapping of k keys, as the sequence of its items in
\* declaration order (a dict iterates in insertion order).
HealthChecks(k) ==
    IF k = 0 THEN {<<>>}
    ELSE {Append(hs, h) : hs \in HealthChecks(k - 1), h \in HealthCheckDefs(KeyNames[k])}

\* shape: "ok", or what is wrong with the document.
Shapes == {"ok", "unreadable", "no_connection", "no_switch_info", "no_health_checks"}

Configs ==
    {[shape |-> "ok", secret |-> s, health_checks |-> hs] :
        s \in BOOLEAN, hs \in UNION {HealthChecks(k) : k \in 0..MaxChecks}}
    \cup
    {[shape |-> sh, secret |-> s, health_checks |-> hs] :
        sh \in Shapes \ {"ok"}, s \in BOOLEAN, hs \in HealthChecks(1)}

\* self.config['health_checks'].get(check_name): the item of that key, if any.
Lookup(cfg, check_name) ==
    {h \in {cfg.health_checks[i] : i \in 1..Len(cfg.health_checks)} : h.name = check_name}

----------------------------------------------------------------------------
\* The state after the interpreter has entered main() (Spec) or before the
\* client constructs the monitor (SpecApi).

InitCommon ==
    /\ config \in Configs
    /\ pc = "init"
    /\ exc = "none"
    /\ connection = 0
    /\ sessions = <<>>
    /\ results = <<>>
    /\ all_results = <<>>
    /\ check_results = <<>>
    /\ cur = ""
    /\ frame = "all"
    /\ hcRet = <<>>
    /\ ci = 0
    /\ ki = 0
    /\ inflight = 0
    /\ sent = <<>>
    /\ connectRet = "none"
    /\ connectFault = "none"
    /\ saveRet = "none"
    /\ saveFault = "none"
    /\ preSave = <<>>
    /\ files = <<>>
    /\ now = 0
    /\ saveDir = "None"
    /\ analysis = <<>>
    /\ disconnectCalls = 0
    /\ calls = 0

Init == driver = "main" /\ InitCommon

\* The client-driven runs use the well-formed documents whose checks have at
\* most one command each.
ApiConfigs ==
    {cfg \in Configs :
        /\ cfg.shape = "ok"
        /\ \A i \in 1..Len(cfg.health_checks) : Len(cfg.health_checks[i].commands) <= 1}

InitApi == driver = "api" /\ InitCommon /\ config \in ApiConfigs

----------------------------------------------------------------------------
\* main(): which statement follows the return of a method (lines 226-253).
\* ok is the truth value of what the method returned.
MainReturnSkipsFinally(stmt, ok) ==
    CASE stmt = "connect"    -> IF ok THEN "all_start" ELSE "done"
      [] stmt = "all"        -> "save"
      [] stmt = "save"       -> "analyze"
      [] stmt = "analyze"    -> "disconnect"
      [] stmt = "disconnect" -> "done"

MainAnalyzesFirst(stmt, ok) ==
    CASE stmt = "connect"    -> IF ok THEN "all_start" ELSE "disconnect"
      [] stmt = "all"        -> "analyze"
      [] stmt = "analyze"    -> "save"
      [] stmt = "save"       -> "disconnect"
      [] stmt = "disconnect" -> "done"

MainSkipsConnectTest(stmt, ok) ==
    CASE stmt = "connect"    -> "all_start"
      [] stmt = "all"        -> "save"
      [] stmt = "save"       -> "analyze"
      [] stmt = "analyze"    -> "disconnect"
      [] stmt = "disconnect" -> "done"

main(stmt, ok) ==
    CASE stmt = "connect"    -> IF ok THEN "all_start" ELSE "disconnect"
      [] stmt = "all"        -> "save"
      [] stmt = "save"       -> "analyze"
      [] stmt = "analyze"    -> "disconnect"
      [] stmt = "disconnect" -> "done"

\* A method returns: main() goes on, a client gets control back.
Return(stmt, ok) ==
    pc' = IF driver = "main" THEN main(stmt, ok) ELSE "idle"

\* main(): where an exception raised inside the try goes.  Both handlers
\* (lines 247-250) only log, and the finally clause (line 253) runs next.
MainLosesInterrupt(e) ==
    IF e = "KeyboardInterrupt" THEN "done" ELSE "disconnect"

mainExcept(e) == "disconnect"

\* An exception leaves a method.
Raise(e) ==
    /\ exc' = e
    /\ pc' = IF driver = "main" THEN mainExcept(e) ELSE "idle"

----------------------------------------------------------------------------
\* CiscoHealthMonitor.__init__ / _load_config (lines 35-53).  It runs before
\* the try of main(): FileNotFoundError and YAMLError leave main().
LoadConfig ==
    /\ pc = "init"
    /\ IF config.shape = "unreadable"
          THEN /\ exc' = "ConfigError"
               /\ pc' = "done"
          ELSE /\ exc' = "none"
               /\ pc' = IF driver = "main" THEN "connect" ELSE "idle"
    /\ UNCHANGED <<driver, config, sessionVars, results, sweepVars, connVars,
                   saveVars, analysis, disconnectCalls, calls>>

\* connect_to_device: the three except clauses (lines 81-89) all return False.
\* e is what was raised: "timeout", "auth", "other" by ConnectHandler, "enable"
\* by self.connection.enable().
ElevationErrorIgnored(e) == (e = "enable")

ExceptReturns(e) == FALSE

Bool(b) == IF b THEN "True" ELSE "False"

ConnectFailures == {"timeout", "auth", "other"}

\* connect_to_device up to the ConnectHandler call (lines 58-72).
ConnectOpen ==
    /\ pc = "connect"
    /\ IF config.shape = "no_connection"
          THEN \* KeyError at line 59, outside the try of line 70
               /\ Raise("KeyError")
               /\ UNCHANGED <<sessionVars, connVars>>
          ELSE \E outcome \in {"ok", "interrupt"} \cup ConnectFailures :
                CASE outcome = "ok" ->
                        /\ sessions' = Append(sessions, [open |-> TRUE, closes |-> 0])
                        /\ connection' = Len(sessions) + 1
                        /\ connectFault' = "none"
                        /\ IF config.secret
                              THEN pc' = "enable" /\ connectRet' = "none"
                              ELSE connectRet' = "True" /\ Return("connect", TRUE)
                        /\ exc' = exc
                  [] outcome = "interrupt" ->
                        /\ Raise("KeyboardInterrupt")
                        /\ UNCHANGED <<sessionVars, connVars>>
                  [] OTHER ->
                        /\ connectFault' = outcome
                        /\ connectRet' = Bool(ExceptReturns(outcome))
                        /\ Return("connect", ExceptReturns(outcome))
                        /\ UNCHANGED <<sessionVars, exc>>
    /\ UNCHANGED <<driver, config, results, sweepVars, saveVars, analysis,
                   disconnectCalls, calls>>

\* self.connection.enable() (lines 75-89).
ConnectEnable ==
    /\ pc = "enable"
    /\ \/ /\ connectRet' = "True"
          /\ Return("connect", TRUE)
          /\ UNCHANGED <<connectFault, exc>>
       \/ /\ connectFault' = "enable"
          /\ connectRet' = Bool(ExceptReturns("enable"))
          /\ Return("connect", ExceptReturns("enable"))
          /\ exc' = exc
       \/ /\ Raise("KeyboardInterrupt")
          /\ UNCHANGED connVars
    /\ UNCHANGED <<driver, config, sessionVars, results, sweepVars, saveVars,
                   analysis, disconnectCalls, calls>>

----------------------------------------------------------------------------
\* execute_health_check (lines 91-136).

\* Line 98: the check runs when its value is a non-empty mapping whose
\* enabled is true.
RunsDisabled(hs) == hs # {}

IsEnabled(hs) == \E h \in hs : h.def = "map" /\ h.enabled = "true"

\* cmd_config.get('description', '') of line 111.
Description(cmd) ==
    IF cmd.description = NoDescription THEN "" ELSE cmd.description

\* What send_command may return: text, or structured data when use_textfsm
\* finds a template.
Outputs(cmd) == IF cmd.parse THEN {"text", "structured"} ELSE {"text"}

\* The entry appended at lines 120-125.
SuccessResult(cmd, output) ==
    [command |-> cmd.command, description |-> Description(cmd),
     output |-> output, status |-> "success"]

\* The entry appended at lines 129-134.
FailedKeepsOutput(cmd, error) ==
    [command |-> cmd.command, description |-> Description(cmd),
     output |-> "", error |-> error, status |-> "failed"]

FailedOmitsDescription(cmd, error) ==
    [command |-> cmd.command, description |-> "",
     error |-> error, status |-> "failed"]

FailedResult(cmd, error) ==
    [command |-> cmd.command, description |-> Description(cmd),
     error |-> error, status |-> "failed"]

\* The position of the for loop of line 109 after the command at position k
\* of n failed: the except clause of line 127 falls through to the next one.
FailureAborts(k, n) == n + 1

RetryOnFailure(k, n) == k

AfterFailure(k, n) == k + 1

\* The commands of the check execute_health_check is running.
CurCommands ==
    LET hs == Lookup(config, cur)
    IN  IF hs = {} THEN <<>> ELSE (CHOOSE h \in hs : TRUE).commands

\* execute_health_check returns v: to line 151, or to the client.
HcReturn(v) ==
    /\ hcRet' = v
    /\ pc' = IF frame = "all" THEN "all_store" ELSE "idle"

\* Lines 93-107: the two early returns, then the empty CheckResult.
HealthCheckEnter ==
    /\ pc = "hc_enter"
    /\ IF connection = 0
          THEN HcReturn(<<>>) /\ UNCHANGED <<check_results, ki, exc>>
          ELSE IF config.shape = "no_health_checks"
          THEN Raise("KeyError") /\ UNCHANGED <<check_results, ki, hcRet>>
          ELSE IF ~IsEnabled(Lookup(config, cur))
          THEN HcReturn(<<>>) /\ UNCHANGED <<check_results, ki, exc>>
          ELSE /\ check_results' = <<[check_name |-> cur, timestamp |-> "isoformat",
                                       commands |-> <<>>]>>
               /\ ki' = 1
               /\ pc' = "hc_loop"
               /\ UNCHANGED <<hcRet, exc>>
    /\ UNCHANGED <<driver, config, sessionVars, results, all_results, cur, frame,
                   ci, inflight, sent, connVars, saveVars, analysis,
                   disconnectCalls, calls>>

\* Lines 109-118: the next command is handed to send_command.
HealthCheckSend ==
    /\ pc = "hc_loop"
    /\ ki <= Len(CurCommands)
    /\ sent' = Append(sent, [check |-> cur, index |-> ki,
                             command |-> CurCommands[ki].command,
                             session |-> connection,
                             open |-> sessions[connection].open])
    /\ inflight' = inflight + 1
    /\ pc' = "hc_wait"
    /\ UNCHANGED <<driver, config, exc, sessionVars, results, all_results,
                   check_results, cur, frame, hcRet, ci, ki, connVars, saveVars,
                   analysis, disconnectCalls, calls>>

\* Lines 115-134: send_command returns or raises.
HealthCheckReceive ==
    /\ pc = "hc_wait"
    /\ inflight' = inflight - 1
    /\ LET cmd == CurCommands[ki]
           n   == Len(CurCommands)
           add(r) == check_results' =
                        <<[check_results[1] EXCEPT !.commands = Append(@, r)]>>
       IN  \/ \E output \in Outputs(cmd) :
                /\ sessions[connection].open   \* a closed session only raises
                /\ add(SuccessResult(cmd, output))
                /\ ki' = ki + 1
                /\ pc' = "hc_loop"
                /\ exc' = exc
           \/ /\ add(FailedResult(cmd, "error"))
              /\ ki' = AfterFailure(ki, n)
              /\ pc' = "hc_loop"
              /\ exc' = exc
           \/ /\ Raise("KeyboardInterrupt")
              /\ UNCHANGED <<check_results, ki>>
    /\ UNCHANGED <<driver, config, sessionVars, results, all_results, cur, frame,
                   hcRet, ci, sent, connVars, saveVars, analysis,
                   disconnectCalls, calls>>

\* Line 136: the loop is over.
HealthCheckReturn ==
    /\ pc = "hc_loop"
    /\ ki > Len(CurCommands)
    /\ HcReturn(check_results)
    /\ UNCHANGED <<driver, config, exc, sessionVars, results, all_results,
                   check_results, cur, frame, ci, ki, inflight, sent, connVars,
                   saveVars, analysis, disconnectCalls, calls>>

----------------------------------------------------------------------------
\* execute_all_health_checks (lines 138-155).

\* all_results['checks'][check_name] = result, on the items of the dict.
DictSet(items, r) ==
    IF \E i \in 1..Len(items) : items[i].check_name = r.check_name
       THEN [i \in 1..Len(items) |->
                IF items[i].check_name = r.check_name THEN r ELSE items[i]]
       ELSE Append(items, r)

\* Line 151: what of the returned value is stored; an empty dict is falsy
\* and is skipped by the caller.
DropsEmptyChecks(ret, name) ==
    IF ret # <<>> /\ ret[1].commands = <<>> THEN <<>> ELSE ret

Kept(ret, name) == ret

\* Lines 140-149: the empty RunResult, then the keys to iterate.
ExecuteAllStart ==
    /\ pc = "all_start"
    /\ frame' = "all"
    /\ IF config.shape = "no_switch_info"
          THEN Raise("KeyError") /\ UNCHANGED <<all_results, ci>>
          ELSE /\ all_results' = <<[device_info |-> "switch_info", checks |-> <<>>]>>
               /\ IF config.shape = "no_health_checks"
                     THEN Raise("KeyError") /\ UNCHANGED ci
                     ELSE ci' = 1 /\ pc' = "all_loop" /\ exc' = exc
    /\ UNCHANGED <<driver, config, sessionVars, results, check_results, cur,
                   hcRet, ki, inflight, sent, connVars, saveVars, analysis,
                   disconnectCalls, calls>>

\* Line 149: the i-th key the for loop visits; keys() iterates in declaration
\* order.
KeyAtReversed(cfg, i) == cfg.health_checks[Len(cfg.health_checks) + 1 - i].name

KeyAt(cfg, i) == cfg.health_checks[i].name

\* Lines 149-150 and 154-155: the next key, or the end of the sweep.
ExecuteAllLoop ==
    /\ pc = "all_loop"
    /\ IF ci <= Len(config.health_checks)
          THEN /\ cur' = KeyAt(config, ci)
               /\ pc' = "hc_enter"
               /\ UNCHANGED results
          ELSE /\ results' = all_results
               /\ Return("all", TRUE)
               /\ UNCHANGED cur
    /\ UNCHANGED <<driver, config, exc, sessionVars, all_results, check_results,
                   frame, hcRet, ci, ki, inflight, sent, connVars, saveVars,
                   analysis, disconnectCalls, calls>>

\* self.results while the loop of lines 149-152 runs: res, what it held
\* before; all, the RunResult being built, is assigned only at line 154.
PublishedEarly(res, all) == all

ResultsDuringSweep(res, all) == res

\* Lines 151-152.
ExecuteAllStore ==
    /\ pc = "all_store"
    /\ LET kept == Kept(hcRet, cur)
       IN  all_results' =
             IF kept # <<>>
                THEN <<[all_results[1] EXCEPT !.checks = DictSet(@, kept[1])]>>
                ELSE all_results
    /\ results' = ResultsDuringSweep(results, all_results')
    /\ ci' = ci + 1
    /\ pc' = "all_loop"
    /\ UNCHANGED <<driver, config, exc, sessionVars, check_results, cur,
                   frame, hcRet, ki, inflight, sent, connVars, saveVars,
                   analysis, disconnectCalls, calls>>

----------------------------------------------------------------------------
\* save_results (lines 157-184).

\* Lines 164-166: the directory written to; the document's output.file_path,
\* or './output' without one, when no argument is given.
ConfiguredDir == "./output"

OutputDir(arg) == IF arg = "None" THEN ConfiguredDir ELSE arg

\* datetime.now().strftime('%Y%m%d_%H%M%S') of line 172, for the clock at
\* tick t: the fields of the wall-clock time down to the second.
StampDropsSeconds(t) ==
    [minute |-> (t \div TicksPerSecond) \div 60, second |-> 0]

strftime(t) ==
    [minute |-> (t \div TicksPerSecond) \div 60,
     second |-> (t \div TicksPerSecond) % 60]

\* Lines 173-174: Path(output_dir) / f"cisco9300_health_{timestamp}.json".
FilePath(dir, stamp) ==
    [dir |-> dir, name |-> <<"cisco9300_health_", stamp, ".json">>]

\* mkdir (line 169) is outside the try of line 177; open and json.dump are
\* inside it.
SaveResults ==
    /\ pc = "save"
    /\ preSave' = results
    /\ saveDir' = saveDir
    /\ IF results = <<>>
          THEN /\ saveRet' = "None"
               /\ saveFault' = "none"
               /\ Return("save", FALSE)
               /\ UNCHANGED <<files, now, exc>>
          ELSE \/ \E t \in now..MaxTime :
                  /\ now' = t
                  /\ files' = Append(files,
                        [path |-> FilePath(OutputDir(saveDir), strftime(t)),
                         doc |-> results[1], time |-> t])
                  /\ saveRet' = "path"
                  /\ saveFault' = "none"
                  /\ Return("save", TRUE)
                  /\ exc' = exc
               \/ /\ saveFault' = "mkdir"
                  /\ saveRet' = "none"
                  /\ Raise("OSError")
                  /\ UNCHANGED <<files, now>>
               \/ /\ saveFault' = "write"
                  /\ saveRet' = "None"
                  /\ Return("save", FALSE)
                  /\ UNCHANGED <<files, now, exc>>
               \/ /\ saveFault' = "none"
                  /\ saveRet' = "none"
                  /\ Raise("KeyboardInterrupt")
                  /\ UNCHANGED <<files, now>>
    /\ UNCHANGED <<driver, config, sessionVars, results, sweepVars, connVars,
                   analysis, disconnectCalls, calls>>

\* analyze_thresholds (lines 192-199): the alerts list is created empty and
\* nothing is appended to it; self.results (run) is not read.
AlertsForFailures(run) ==
    IF run # <<>> /\ \E c \in 1..Len(run[1].checks) :
                        \E k \in 1..Len(run[1].checks[c].commands) :
                            run[1].checks[c].commands[k].status = "failed"
       THEN <<"command failed">>
       ELSE <<>>

Alerts(run) == <<>>

AnalyzeThresholds ==
    /\ pc = "analyze"
    /\ \/ /\ analysis' = <<[alerts |-> Alerts(results)]>>
          /\ Return("analyze", TRUE)
          /\ exc' = exc
       \/ /\ Raise("KeyboardInterrupt")
          /\ UNCHANGED analysis
    /\ UNCHANGED <<driver, config, sessionVars, results, sweepVars, connVars,
                   saveVars, disconnectCalls, calls>>

\* disconnect (lines 186-190): self.connection is tested, never reset.
disconnect(conn, sess) ==
    IF conn # 0
       THEN [sess EXCEPT ![conn] = [open |-> FALSE, closes |-> @.closes + 1]]
       ELSE sess

Disconnect ==
    /\ pc = "disconnect"
    /\ disconnectCalls' = disconnectCalls + 1
    /\ sessions' = disconnect(connection, sessions)
    /\ Return("disconnect", FALSE)
    /\ UNCHANGED <<driver, config, exc, connection, results, sweepVars,
                   connVars, saveVars, analysis, calls>>

----------------------------------------------------------------------------
\* A client calls one public method of the monitor it constructed.
Methods == {"connect", "all_start", "hc_enter", "save", "analyze", "disconnect"}

\* What a client passes as output_dir: nothing, the configured directory,
\* or another one.
SaveDirs == {"None", ConfiguredDir, "/var/tmp/health"}

ApiCall ==
    /\ pc = "idle"
    /\ calls < MaxCalls
    /\ calls' = calls + 1
    /\ exc' = "none"
    /\ \E m \in Methods :
        /\ pc' = m
        /\ IF m = "hc_enter"
              THEN /\ frame' = "single"
                   /\ cur' \in {KeyNames[i] : i \in 1..Len(config.health_checks)}
                               \cup {"unknown"}
              ELSE UNCHANGED <<frame, cur>>
        /\ IF m = "save"
              THEN saveDir' \in SaveDirs
              ELSE UNCHANGED saveDir
    /\ UNCHANGED <<driver, config, sessionVars, results, all_results,
                   check_results, hcRet, ci, ki, inflight, sent, connVars,
                   saveRet, saveFault, preSave, files, now, analysis,
                   disconnectCalls>>

----------------------------------------------------------------------------
Next ==
    \/ LoadConfig
    \/ ConnectOpen
    \/ ConnectEnable
    \/ ExecuteAllStart
    \/ ExecuteAllLoop
    \/ HealthCheckEnter
    \/ HealthCheckSend
    \/ HealthCheckReceive
    \/ HealthCheckReturn
    \/ ExecuteAllStore
    \/ SaveResults
    \/ AnalyzeThresholds
    \/ Disconnect

NextApi == Next \/ ApiCall

Spec == Init /\ [][Next]_vars

SpecApi == InitApi /\ [][NextApi]_vars

----------------------------------------------------------------------------
\* What the properties below speak about, read off the configuration and the
\* recorded results.

\* A check whose definition exists and has enabled = true.
Declared(h) == h.def = "map" /\ h.enabled = "true"

DeclaredNames ==
    {config.health_checks[i].name :
        i \in {j \in 1..Len(config.health_checks) : Declared(config.health_checks[j])}}

RECURSIVE DeclaredCommands(_)
\* The commands of the enabled checks, in declaration order.
DeclaredCommands(hs) ==
    IF hs = <<>> THEN <<>>
    ELSE (IF Declared(Head(hs))
             THEN [i \in 1..Len(Head(hs).commands) |-> Head(hs).commands[i].command]
             ELSE <<>>) \o DeclaredCommands(Tail(hs))

SentCommands == [i \in 1..Len(sent) |-> sent[i].command]

\* The keys of RunResult.checks.
Keys(run) == {run.checks[i].check_name : i \in 1..Len(run.checks)}

\* execute_all_health_checks has returned in this run of main().
SweepComplete == driver = "main" /\ results # <<>>

\* Some recorded command of the finished sweep failed.
SomeFailed(run) ==
    \E i \in 1..Len(run.checks) :
        \E k \in 1..Len(run.checks[i].commands) :
            run.checks[i].commands[k].status = "failed"

\* main() got past the construction of the monitor and has ended.
RunEnded == driver = "main" /\ pc = "done" /\ exc # "ConfigError"

AllClosedOnce ==
    \A i \in 1..Len(sessions) : ~sessions[i].open /\ sessions[i].closes = 1

----------------------------------------------------------------------------
\* C1: in every run of main() that enters the try block, whatever fails
\* (connect, elevation, a command, the save, or nothing), disconnect() has been
\* called exactly once when the run ends and not before; the session that was
\* created, if any, has been closed exactly once.
C1_DisconnectExactlyOnce ==
    driver = "main" =>
        /\ (pc # "done" => disconnectCalls = 0)
        /\ (RunEnded => disconnectCalls = 1 /\ AllClosedOnce)

\* C1 witness: a run that ended after a failed write, with its session closed.
C1_Witness ==
    /\ RunEnded
    /\ saveFault = "write"
    /\ disconnectCalls = 1
    /\ sessions # <<>>

\* C2: when a command of an enabled check failed, the sweep still sends every
\* command of every enabled check, in declaration order, before it returns.
C2_FailureDoesNotAbort ==
    (SweepComplete /\ SomeFailed(results[1])) =>
        SentCommands = DeclaredCommands(config.health_checks)

\* C2 witness: the first command of the first check failed and three more
\* commands, one of them of a later check, were sent after it.
C2_Witness ==
    /\ SweepComplete
    /\ Len(results[1].checks) = 2
    /\ Len(results[1].checks[1].commands) = 2
    /\ results[1].checks[1].commands[1].status = "failed"
    /\ Len(sent) = 4

\* C3: after the sweep the keys of RunResult.checks are exactly the names
\* whose definition exists and has enabled = true, and no other name is a key
\* while the RunResult is being built.
C3_KeysAreEnabledChecks ==
    /\ (all_results # <<>> /\ driver = "main") =>
            Keys(all_results[1]) \subseteq DeclaredNames
    /\ SweepComplete => Keys(results[1]) = DeclaredNames

\* C3 witness: {cpu: enabled, memory: disabled} gave exactly the key cpu.
C3_Witness ==
    /\ SweepComplete
    /\ Len(config.health_checks) = 2
    /\ Declared(config.health_checks[1])
    /\ config.health_checks[2].def = "map"
    /\ config.health_checks[2].enabled = "false"
    /\ Len(config.health_checks[2].commands) > 0
    /\ Keys(results[1]) = {"cpu"}

\* C4: the CheckResult execute_health_check returns for an enabled check of N
\* commands has N entries, the i-th with the command and the description of
\* the i-th CommandSpec ('' when it has none).
C4_OneResultPerCommand ==
    hcRet # <<>> =>
        \A h \in Lookup(config, hcRet[1].check_name) :
            /\ Len(hcRet[1].commands) = Len(h.commands)
            /\ \A i \in 1..Len(h.commands) :
                /\ hcRet[1].commands[i].command = h.commands[i].command
                /\ hcRet[1].commands[i].description =
                      IF h.commands[i].description = NoDescription
                         THEN "" ELSE h.commands[i].description

\* C4 witness: a check of two commands returned with the first failed and the
\* second succeeded.
C4_Witness ==
    /\ hcRet # <<>>
    /\ Len(hcRet[1].commands) = 2
    /\ hcRet[1].commands[1].status = "failed"
    /\ hcRet[1].commands[2].status = "success"

\* C5: every CommandResult has exactly one of output and error: status is
\* success iff output is present and error absent, failed iff error is present
\* and output absent.
ExactlyOne(r) ==
    /\ r.status \in {"success", "failed"}
    /\ (r.status = "success") <=> ("output" \in DOMAIN r /\ "error" \notin DOMAIN r)
    /\ (r.status = "failed") <=> ("error" \in DOMAIN r /\ "output" \notin DOMAIN r)

C5_OutputXorError ==
    /\ check_results # <<>> =>
        \A i \in 1..Len(check_results[1].commands) :
            ExactlyOne(check_results[1].commands[i])
    /\ results # <<>> =>
        \A c \in 1..Len(results[1].checks) :
            \A i \in 1..Len(results[1].checks[c].commands) :
                ExactlyOne(results[1].checks[c].commands[i])

\* C5 witness: a CheckResult holding a failed and a successful CommandResult.
C5_Witness ==
    /\ check_results # <<>>
    /\ Len(check_results[1].commands) = 2
    /\ check_results[1].commands[1].status = "success"
    /\ check_results[1].commands[2].status = "failed"

\* C6: unless connect_to_device returned True, the run sends no command,
\* builds no RunResult and writes no file; once it has returned False (or
\* raised) only the finally clause is left to run.
C6_NoSweepAfterFailedConnect ==
    (driver = "main" /\ connectRet # "True") =>
        /\ sent = <<>>
        /\ all_results = <<>>
        /\ results = <<>>
        /\ files = <<>>
        /\ saveRet = "none"
        /\ connectRet = "False" => pc \in {"disconnect", "done"}

\* C6 witness: a run that ended after ConnectHandler timed out.
C6_Witness ==
    /\ RunEnded
    /\ connectFault = "timeout"
    /\ connectRet = "False"
    /\ sessions = <<>>

\* C7: when a KeyboardInterrupt arrived after a session was created, the
\* session is closed when main() ends.
C7_InterruptStillDisconnects ==
    (RunEnded /\ exc = "KeyboardInterrupt" /\ sessions # <<>>) => AllClosedOnce

\* C7 witness: the interrupt arrived while a command was in flight.
C7_Witness ==
    /\ RunEnded
    /\ exc = "KeyboardInterrupt"
    /\ sent # <<>>
    /\ results = <<>>
    /\ AllClosedOnce

\* C8: a failed save (directory or file) makes save_results return None
\* without raising, and leaves self.results as it was.
C8_SaveFailureIsNotFatal ==
    (driver = "main" /\ saveFault # "none") =>
        /\ saveRet = "None"
        /\ exc = "none"
        /\ results = preSave

\* C9: however often disconnect() is called, the session is closed once.
C9_DisconnectIdempotent ==
    \A i \in 1..Len(sessions) : sessions[i].closes <= 1

\* C10: when the session opened and enable() failed, connect_to_device
\* returned False, no check ran, and the session is closed when the run ends.
C10_ElevationFailureIsConnectFailure ==
    (driver = "main" /\ connectFault = "enable") =>
        /\ connectRet = "False"
        /\ sent = <<>>
        /\ all_results = <<>>
        /\ RunEnded => (sessions # <<>> /\ AllClosedOnce)

\* C10 witness: a run that ended after enable() failed on an open session.
C10_Witness ==
    /\ RunEnded
    /\ connectFault = "enable"
    /\ Len(sessions) = 1
    /\ sessions[1].closes = 1

----------------------------------------------------------------------------
\* The wall-clock second of the i-th successful save.
SaveSecond(i) == files[i].time \div TicksPerSecond

\* C11: two successful saves into the same directory at distinct wall-clock
\* seconds have distinct paths, and two within the same second have the same
\* path: the file name is determined by the second of the save.
C11_DistinctSecondsDistinctFiles ==
    \A i, j \in 1..Len(files) :
        (i < j /\ files[i].path.dir = files[j].path.dir) =>
            (SaveSecond(i) # SaveSecond(j)) <=> (files[i].path # files[j].path)

\* C11 witness: two saves into the configured directory, one second apart,
\* left two files.
C11_Witness ==
    /\ Len(files) = 2
    /\ files[1].path.dir = files[2].path.dir
    /\ SaveSecond(1) # SaveSecond(2)
    /\ files[1].path # files[2].path

----------------------------------------------------------------------------
\* C12: analyze_thresholds returns an empty alert sequence whatever the
\* RunResult holds, failed commands included, and the step that runs it leaves
\* self.results as it was.
C12_NoRulesNoAlerts ==
    /\ [](analysis # <<>> => analysis[1].alerts = <<>>)
    /\ [][pc = "analyze" => results' = results]_vars

\* C12 witness: the analysis of a RunResult with a failed command returned no
\* alert.
C12_Witness ==
    /\ driver = "main"
    /\ analysis # <<>>
    /\ analysis[1].alerts = <<>>
    /\ results # <<>>
    /\ SomeFailed(results[1])

----------------------------------------------------------------------------
\* How often the i-th command of the check called name was handed to
\* send_command.
TimesSent(name, i) ==
    Cardinality({k \in 1..Len(sent) : sent[k].check = name /\ sent[k].index = i})

\* C13: in one run each command of each enabled check is sent at most once,
\* exactly once when the sweep has returned, whether it succeeded or failed;
\* no command of a check that is not enabled is sent.
C13_SingleAttempt ==
    driver = "main" =>
        \A c \in 1..Len(config.health_checks) :
            LET h == config.health_checks[c]
            IN  /\ \A k \in 1..Len(sent) :
                    sent[k].check = h.name =>
                        Declared(h) /\ sent[k].index \in 1..Len(h.commands)
                /\ \A i \in 1..Len(h.commands) :
                    /\ TimesSent(h.name, i) <= 1
                    /\ (SweepComplete /\ Declared(h)) => TimesSent(h.name, i) = 1

\* C13 witness: a finished sweep in which a command failed and was sent once,
\* next to a disabled check whose command was not sent.
C13_Witness ==
    /\ SweepComplete
    /\ Len(config.health_checks) = 2
    /\ Declared(config.health_checks[1])
    /\ config.health_checks[2].enabled = "false"
    /\ Len(config.health_checks[2].commands) = 2
    /\ Len(results[1].checks[1].commands) = 2
    /\ results[1].checks[1].commands[1].status = "failed"
    /\ TimesSent("cpu", 1) = 1
    /\ TimesSent("memory", 1) = 0

----------------------------------------------------------------------------
\* The place of a key in the declaration order of health_checks.
Position(name) ==
    CHOOSE i \in 1..Len(config.health_checks) : config.health_checks[i].name = name

\* The CommandResults recorded so far for the check called name.
Recorded(name) ==
    IF all_results # <<>> /\ name \in Keys(all_results[1])
       THEN Len((CHOOSE r \in {all_results[1].checks[i] :
                                  i \in 1..Len(all_results[1].checks)} :
                    r.check_name = name).commands)
       ELSE 0

\* C14: commands reach the device in declaration order, one at a time: at
\* most one send_command call is open, the commands sent so far are ordered by
\* check and then by CommandSpec, and when a command of a check B is sent every
\* command of every enabled check declared before B has its result recorded.
C14_DeclarationOrder ==
    driver = "main" =>
        /\ inflight <= 1
        /\ \A k, l \in 1..Len(sent) :
            k < l =>
                \/ Position(sent[k].check) < Position(sent[l].check)
                \/ /\ sent[k].check = sent[l].check
                   /\ sent[k].index < sent[l].index
        /\ \A l \in 1..Len(sent) :
            \A a \in 1..(Position(sent[l].check) - 1) :
                Declared(config.health_checks[a]) =>
                    /\ config.health_checks[a].name \in Keys(all_results[1])
                    /\ Recorded(config.health_checks[a].name) =
                            Len(config.health_checks[a].commands)
        /\ (pc = "hc_wait") =>
                /\ inflight = 1
                /\ Len(check_results[1].commands) = ki - 1
                /\ sent[Len(sent)].index = ki

\* C14 witness: the first command of the second check is in flight after both
\* commands of the first check were sent and recorded.
C14_Witness ==
    /\ driver = "main"
    /\ pc = "hc_wait"
    /\ Len(sent) = 3
    /\ sent[1].check = "cpu"
    /\ sent[2].check = "cpu"
    /\ sent[3].check = "memory"
    /\ Recorded("cpu") = 2

----------------------------------------------------------------------------
\* C15 as stated: the RunResult reaches analyze_thresholds before
\* save_results, so once save_results has returned or written, the analysis
\* has been made.
C15_AnalysisBeforeSave ==
    (driver = "main" /\ (saveRet # "none" \/ files # <<>>)) => analysis # <<>>

\* C15 as amended: main() calls save_results first and analyze_thresholds
\* second; the analysis is made only after save_results has returned, with a
\* path or with None.
C15_SaveBeforeAnalysis ==
    driver = "main" =>
        /\ (pc = "analyze" \/ analysis # <<>>) => saveRet \in {"path", "None"}
        /\ pc = "save" => analysis = <<>>

\* C15 witness: the analysis was made after the document was written.
C15_Witness ==
    /\ driver = "main"
    /\ analysis # <<>>
    /\ saveRet = "path"
    /\ Len(files) = 1

----------------------------------------------------------------------------
\* A RunResult that holds every enabled check with all of its commands.
Finalized(run) ==
    /\ Keys(run) = DeclaredNames
    /\ \A i \in 1..Len(run.checks) :
        \A h \in Lookup(config, run.checks[i].check_name) :
            Len(run.checks[i].commands) = Len(h.commands)

\* C16: self.results and every written document hold a finalized RunResult;
\* save_results and analyze_thresholds run only on one; and when the sweep was
\* cut short nothing is stored in self.results, written or analysed.
C16_OnlyFinalizedResults ==
    driver = "main" =>
        /\ results # <<>> => Finalized(results[1])
        /\ \A f \in 1..Len(files) : Finalized(files[f].doc)
        /\ pc \in {"save", "analyze"} => results # <<>> /\ results = all_results
        /\ (all_results # results) =>
                results = <<>> /\ files = <<>> /\ analysis = <<>>

\* C16 witness: an interrupt cut the sweep short after the first check was
\* stored; the run ended with nothing in self.results and no file.
C16_Witness ==
    /\ RunEnded
    /\ exc = "KeyboardInterrupt"
    /\ all_results # <<>>
    /\ Len(all_results[1].checks) = 1
    /\ Len(sent) = 3
    /\ results = <<>>
    /\ files = <<>>

----------------------------------------------------------------------------
\* C17: a configuration error (an unreadable document, or a missing
\* connection, switch_info or health_checks section) is raised before any
\* session is opened: no run has a session and a configuration error.
C17_ConfigErrorBeforeConnect ==
    (driver = "main" /\ exc \in {"ConfigError", "KeyError"}) => sessions = <<>>

----------------------------------------------------------------------------
\* C18: whatever the client calls, a command is handed to send_command only
\* on a session that is live, i.e. that has not been disconnected.
C18_SendsOnlyOnLiveSession ==
    \A k \in 1..Len(sent) : sent[k].session # 0 /\ sent[k].open

----------------------------------------------------------------------------
\* The entries of a RunResult stored under the key name.
Entries(run, name) ==
    {i \in 1..Len(run.checks) : run.checks[i].check_name = name}

\* C19: after the sweep an enabled check that declares no command is a key of
\* RunResult.checks, its CheckResult has check_name, timestamp and an empty
\* commands sequence, and nothing was sent for it; every key that is missing
\* belongs to a check that is disabled or undefined.
C19_EmptyCheckIsKept ==
    SweepComplete =>
        \A c \in 1..Len(config.health_checks) :
            LET h == config.health_checks[c]
            IN  /\ (Declared(h) /\ h.commands = <<>>) =>
                    /\ Cardinality(Entries(results[1], h.name)) = 1
                    /\ \A i \in Entries(results[1], h.name) :
                        /\ DOMAIN results[1].checks[i] =
                                {"check_name", "timestamp", "commands"}
                        /\ results[1].checks[i].commands = <<>>
                    /\ \A k \in 1..Len(sent) : sent[k].check # h.name
                /\ Entries(results[1], h.name) = {} => ~Declared(h)

\* C19 witness: a finished sweep whose first check is enabled with no
\* command and is a key, next to an undefined check that is not.
C19_Witness ==
    /\ SweepComplete
    /\ Len(config.health_checks) = 2
    /\ Declared(config.health_checks[1])
    /\ config.health_checks[1].commands = <<>>
    /\ config.health_checks[2].def = "none"
    /\ Keys(results[1]) = {"cpu"}
    /\ sent = <<>>

====
